---- MODULE Spec2Model ----
(***************************************************************************)
(* Feature extraction and rule-based risk scoring of the health-risk       *)
(* prediction servers (ml-model/local_server.py and                        *)
(* ml-model/local_server_realdata.py).                                     *)
(*                                                                         *)
(* Numbers.  Python's numeric values are modelled as exact rationals       *)
(* <<n, d>> in lowest terms with d > 0: the decimal literals of the code   *)
(* (0.30, 0.05, ...) are the rationals they denote, and +, -, *, / are     *)
(* exact.  The rounding error of binary floating point is not part of the  *)
(* model.  A pair <<c, 0>> stands for an exception raised while computing  *)
(* a number (c = 1: ZeroDivisionError, c = 2: ValueError).                 *)
(***************************************************************************)
EXTENDS Integers, Sequences, FiniteSets, TLC

VARIABLES
    metrics,        \* the list of metric records handed to compute_features
    user_profile,   \* the profile dict handed to compute_features
    features,       \* the feature dict (result of compute_features)
    risk_score,     \* the value returned by calculate_risk_score
    response,       \* the dict returned by the prediction-response builder
    values,         \* a metric sub-series handed to compute_trend
    trend,          \* the value returned by compute_trend
    clock,          \* iteration of the forecast loop |-> days by which
                    \* datetime.now() is past the day the call began on
    request,        \* the POST /predictHealthRisk request being handled
    wfile,          \* the documents written to the response body
    random_state,   \* the state of the generator behind the random module
    calls,          \* the invocations of the core so far: arguments and results
    pc              \* position in the pipeline

vars == <<metrics, user_profile, features, risk_score, response, values, trend,
          clock, request, wfile, random_state, calls, pc>>

\* Python's None
None == "None"

-----------------------------------------------------------------------------
(* Exact rational arithmetic.                                              *)

Abs(x) == IF x < 0 THEN -x ELSE x

RECURSIVE Gcd(_, _)
Gcd(a, b) == IF b = 0 THEN a ELSE Gcd(b, a % b)

\* The rational n/d in lowest terms (d # 0).
Rat(n, d) ==
    LET g == Gcd(Abs(n), Abs(d))
        s == IF d < 0 THEN -1 ELSE 1
    IN  <<(s * n) \div g, (s * d) \div g>>

Int2Rat(n) == <<n, 1>>
Zero == <<0, 1>>
One == <<1, 1>>

ZeroDivisionError == <<1, 0>>
ValueError == <<2, 0>>
IsError(x) == x[2] = 0

\* Sums and differences are formed over the least common denominator.
RAdd(x, y) ==
    LET g == Gcd(x[2], y[2])
    IN  Rat(x[1] * (y[2] \div g) + y[1] * (x[2] \div g), (x[2] \div g) * y[2])
RNeg(x) == <<-x[1], x[2]>>
RSub(x, y) == RAdd(x, RNeg(y))
RMul(x, y) == Rat(x[1] * y[1], x[2] * y[2])
\* Python's true division: a zero divisor raises.
RDiv(x, y) == IF y[1] = 0 THEN ZeroDivisionError ELSE Rat(x[1] * y[2], x[2] * y[1])
RLt(x, y) == x[1] * y[2] < y[1] * x[2]
RGt(x, y) == RLt(y, x)
RLe(x, y) == ~RLt(y, x)
RAbs(x) == <<Abs(x[1]), x[2]>>
RMin(x, y) == IF RLt(y, x) THEN y ELSE x
RMax(x, y) == IF RGt(y, x) THEN y ELSE x

\* Python's round(x, ndigits) on an exact value: to the nearest multiple of
\* 10^-ndigits, ties to the even multiple.  scale = 10^ndigits.
Round(x, scale) ==
    LET n == Abs(x[1]) * scale
        q == n \div x[2]
        r == n % x[2]
        up == IF 2 * r > x[2] THEN 1
              ELSE IF 2 * r < x[2] THEN 0
              ELSE q % 2
        s == IF x[1] < 0 THEN -1 ELSE 1
    IN  Rat(s * (q + up), scale)

-----------------------------------------------------------------------------
(* calculate_risk_score.                                                   *)

\* hr_risk with the bands tested mildest first.
hr_risk_mildest_first(hr_mean) ==
    IF RGt(hr_mean, Int2Rat(80)) THEN Rat(15, 100)
    ELSE IF RGt(hr_mean, Int2Rat(90)) THEN Rat(25, 100)
    ELSE IF RGt(hr_mean, Int2Rat(100)) THEN Rat(30, 100)
    ELSE IF RLt(hr_mean, Int2Rat(60)) THEN Rat(10, 100)
    ELSE IF RLt(hr_mean, Int2Rat(50)) THEN Rat(20, 100)
    ELSE Zero

\* Heart Rate Risk
hr_risk(hr_mean) ==
    IF RGt(hr_mean, Int2Rat(100)) THEN Rat(30, 100)
    ELSE IF RGt(hr_mean, Int2Rat(90)) THEN Rat(25, 100)
    ELSE IF RGt(hr_mean, Int2Rat(80)) THEN Rat(15, 100)
    ELSE IF RLt(hr_mean, Int2Rat(50)) THEN Rat(20, 100)
    ELSE IF RLt(hr_mean, Int2Rat(60)) THEN Rat(10, 100)
    ELSE Zero

\* Steps Risk that takes a mean of 0 for the absence of step records.
steps_risk_unless_no_data(steps_mean) ==
    IF steps_mean = Zero THEN Zero
    ELSE IF RLt(steps_mean, Int2Rat(3000)) THEN Rat(30, 100)
    ELSE IF RLt(steps_mean, Int2Rat(5000)) THEN Rat(20, 100)
    ELSE IF RLt(steps_mean, Int2Rat(7000)) THEN Rat(10, 100)
    ELSE Zero

\* Steps Risk
steps_risk(steps_mean) ==
    IF RLt(steps_mean, Int2Rat(3000)) THEN Rat(30, 100)
    ELSE IF RLt(steps_mean, Int2Rat(5000)) THEN Rat(20, 100)
    ELSE IF RLt(steps_mean, Int2Rat(7000)) THEN Rat(10, 100)
    ELSE Zero

\* Sleep Risk
sleep_risk(sleep_mean) ==
    IF RLt(sleep_mean, Int2Rat(5)) THEN Rat(20, 100)
    ELSE IF RLt(sleep_mean, Int2Rat(6)) THEN Rat(15, 100)
    ELSE IF RLt(sleep_mean, Int2Rat(7)) THEN Rat(10, 100)
    ELSE IF RGt(sleep_mean, Int2Rat(10)) THEN Rat(10, 100)
    ELSE Zero

\* Calories Risk
cal_risk(cal_mean) ==
    IF RGt(cal_mean, Int2Rat(3000)) THEN Rat(10, 100)
    ELSE IF RGt(cal_mean, Int2Rat(2800)) THEN Rat(5, 100)
    ELSE IF RLt(cal_mean, Int2Rat(1500)) THEN Rat(8, 100)
    ELSE Zero

\* Age Risk
age_risk(age) ==
    IF age > 60 THEN Rat(10, 100)
    ELSE IF age > 50 THEN Rat(5, 100)
    ELSE IF age < 18 THEN Rat(3, 100)
    ELSE Zero

\* Trend penalties
trend_risk(f) ==
    RAdd(RAdd(IF RGt(f.trend_heart_rate, Rat(5, 10)) THEN Rat(5, 100) ELSE Zero,
              IF RLt(f.trend_steps, Int2Rat(-50)) THEN Rat(5, 100) ELSE Zero),
         IF RLt(f.trend_sleep, Rat(-1, 10)) THEN Rat(5, 100) ELSE Zero)

\* The value of the local `risk` when the return statement is reached.
risk_sum(f) ==
    RAdd(RAdd(RAdd(RAdd(RAdd(hr_risk(f.heart_rate_mean),
                             steps_risk(f.steps_mean)),
                        sleep_risk(f.sleep_hours_mean)),
                   cal_risk(f.calories_mean)),
              age_risk(f.age)),
         trend_risk(f))

\* calculate_risk_score returning `risk` as it is.
calculate_risk_score_unclamped(f) == risk_sum(f)

\* calculate_risk_score with a random jitter, as the mock prediction has.
calculate_risk_score_jittered(f) ==
    RMax(Zero, RMin(One, RAdd(risk_sum(f),
        RAdd(Rat(-5, 100), RMul(Rat(10, 100), Rat(random_state % 3, 2))))))

calculate_risk_score(f) == RMax(Zero, RMin(One, risk_sum(f)))

-----------------------------------------------------------------------------
(* compute_features.                                                       *)
(*                                                                         *)
(* A metric record is [timestamp, metricType, value].  A timestamp is      *)
(* [repr, day, hour]: repr = "datetime" for a datetime object and "str"    *)
(* for an ISO-8601 string "YYYY-MM-DDThh:..." of the same instant.  A      *)
(* profile is a function whose domain (a subset of {"age", "gender"}) is   *)
(* the set of keys present.  A Python str is the sequence of its           *)
(* characters.                                                             *)

RECURSIVE sum(_)
sum(arr) == IF arr = <<>> THEN Zero ELSE RAdd(arr[1], sum(Tail(arr)))

\* The calories series taking every record that is not of the other three
\* types.
RECURSIVE SelectValuesCatchAll(_, _)
SelectValuesCatchAll(ms, type) ==
    IF ms = <<>> THEN <<>>
    ELSE IF \/ ms[1].metricType = type
            \/ type = "calories" /\ ms[1].metricType \notin {"heart_rate", "steps", "sleep"}
         THEN <<Int2Rat(ms[1].value)>> \o SelectValuesCatchAll(Tail(ms), type)
         ELSE SelectValuesCatchAll(Tail(ms), type)

RECURSIVE SelectValues(_, _)
\* [m['value'] for m in metrics if m['metricType'] == type]
SelectValues(ms, type) ==
    IF ms = <<>> THEN <<>>
    ELSE IF ms[1].metricType = type
         THEN <<Int2Rat(ms[1].value)>> \o SelectValues(Tail(ms), type)
         ELSE SelectValues(Tail(ms), type)

\* mean without the test for an empty list.
mean_unguarded(arr) == RDiv(sum(arr), Int2Rat(Len(arr)))

mean(arr) == IF arr # <<>> THEN RDiv(sum(arr), Int2Rat(Len(arr))) ELSE Zero

\* v ** 0.5 for v >= 0: the non-negative real whose square is v, kept as its
\* radicand (Root(Zero) is the number 0).
Root(v) == [radicand |-> v]

std(arr) ==
    IF arr = <<>> THEN Root(Zero)
    ELSE LET avg == mean(arr)
             sq == [i \in DOMAIN arr |-> RMul(RSub(arr[i], avg), RSub(arr[i], avg))]
             variance == RDiv(sum(sq), Int2Rat(Len(arr)))
         IN  Root(variance)

RECURSIVE SumInts(_)
SumInts(s) == IF s = <<>> THEN 0 ELSE s[1] + SumInts(Tail(s))

\* compute_trend with sum_y in place of sum_x * sum_y.
compute_trend_no_sum_x(vals) ==
    IF Len(vals) < 2 THEN Zero
    ELSE LET n == Len(vals)
             x == [i \in 1..n |-> i - 1]
             sum_x == SumInts(x)
             sum_y == sum(vals)
             sum_xy == sum([i \in 1..n |-> RMul(Int2Rat(x[i]), vals[i])])
             sum_x2 == SumInts([i \in 1..n |-> x[i] * x[i]])
             denominator == n * sum_x2 - sum_x * sum_x
         IN  IF denominator = 0 THEN Zero
             ELSE RDiv(RSub(RMul(Int2Rat(n), sum_xy), sum_y), Int2Rat(denominator))

\* denominator with every index equal to 0.
denominator_of_equal_x(n) ==
    LET x == [i \in 1..n |-> 0]
        sum_x == SumInts(x)
        sum_x2 == SumInts([i \in 1..n |-> x[i] * x[i]])
    IN  n * sum_x2 - sum_x * sum_x

\* n * sum_x2 - sum_x ** 2 for x = list(range(n))
denominator(n) ==
    LET x == [i \in 1..n |-> i - 1]
        sum_x == SumInts(x)
        sum_x2 == SumInts([i \in 1..n |-> x[i] * x[i]])
    IN  n * sum_x2 - sum_x * sum_x

\* Simple linear regression slope
compute_trend(vals) ==
    IF Len(vals) < 2 THEN Zero
    ELSE LET n == Len(vals)
             x == [i \in 1..n |-> i - 1]
             sum_x == SumInts(x)
             sum_y == sum(vals)
             sum_xy == sum([i \in 1..n |-> RMul(Int2Rat(x[i]), vals[i])])
         IN  IF denominator(n) = 0 THEN Zero
             ELSE RDiv(RSub(RMul(Int2Rat(n), sum_xy), RMul(Int2Rat(sum_x), sum_y)),
                       Int2Rat(denominator(n)))

\* The return statement compute_trend leaves by.
compute_trend_return(vals) ==
    IF Len(vals) < 2 THEN "len(values) < 2"
    ELSE IF denominator(Len(vals)) = 0 THEN "denominator == 0"
    ELSE "slope"

RECURSIVE Largest(_)
Largest(arr) ==
    IF Len(arr) = 1 THEN arr[1] ELSE RMax(arr[1], Largest(Tail(arr)))
RECURSIVE Smallest(_)
Smallest(arr) ==
    IF Len(arr) = 1 THEN arr[1] ELSE RMin(arr[1], Smallest(Tail(arr)))

\* Python's max() and min(): an empty argument raises ValueError.
max(arr) == IF arr = <<>> THEN ValueError ELSE Largest(arr)
min(arr) == IF arr = <<>> THEN ValueError ELSE Smallest(arr)

\* min(heart_rate_data) with -1 for "no data".
heart_rate_min_sentinel(heart_rate_data) ==
    IF heart_rate_data # <<>> THEN min(heart_rate_data) ELSE Int2Rat(-1)

\* max(heart_rate_data) if heart_rate_data else 0
heart_rate_max(heart_rate_data) ==
    IF heart_rate_data # <<>> THEN max(heart_rate_data) ELSE Zero
\* min(heart_rate_data) if heart_rate_data else 0
heart_rate_min(heart_rate_data) ==
    IF heart_rate_data # <<>> THEN min(heart_rate_data) ELSE Zero

\* datetime.date(): the calendar date of a datetime object.
date(ts) == [type |-> "date", day |-> ts.day]
\* s[:10]: the first ten characters "YYYY-MM-DD" of an ISO string, a str.
prefix10(ts) == [type |-> "str", day |-> ts.day]

\* m['timestamp'].date() if hasattr(m['timestamp'], 'date') else m['timestamp'][:10]
day_key(ts) == IF ts.repr = "datetime" THEN date(ts) ELSE prefix10(ts)

unique_days(ms) == Cardinality({day_key(ms[i].timestamp) : i \in DOMAIN ms})

\* dict.get(key, default)
get(d, key, default) == IF key \in DOMAIN d THEN d[key] ELSE default

lower_char(c) ==
    CASE c = "M" -> "m" [] c = "A" -> "a" [] c = "L" -> "l" [] c = "E" -> "e"
      [] c = "F" -> "f" [] OTHER -> c
\* str.lower()
lower(s) == [i \in DOMAIN s |-> lower_char(s[i])]

male == <<"m", "a", "l", "e">>

\* None as the value of a profile's gender.  A str is a sequence of single
\* characters, so no str equals it.
NoneGender == <<"NoneType">>

\* gender_encoded is 1 or 0; -1 stands for the AttributeError that
\* None.lower() raises.
AttributeError == -1

\* 1 if user_profile.get('gender', 'male').lower() == 'male' else 0
gender_encoded(profile) ==
    IF get(profile, "gender", male) = NoneGender THEN AttributeError
    ELSE IF lower(get(profile, "gender", male)) = male THEN 1 ELSE 0

compute_features(ms, profile) ==
    LET heart_rate_data == SelectValues(ms, "heart_rate")
        steps_data == SelectValues(ms, "steps")
        sleep_data == SelectValues(ms, "sleep")
        calories_data == SelectValues(ms, "calories")
    IN  [heart_rate_mean |-> mean(heart_rate_data),
         heart_rate_std |-> std(heart_rate_data),
         heart_rate_max |-> heart_rate_max(heart_rate_data),
         heart_rate_min |-> heart_rate_min(heart_rate_data),
         steps_mean |-> mean(steps_data),
         steps_std |-> std(steps_data),
         steps_total |-> sum(steps_data),
         sleep_hours_mean |-> mean(sleep_data),
         sleep_hours_std |-> std(sleep_data),
         calories_mean |-> mean(calories_data),
         calories_std |-> std(calories_data),
         age |-> get(profile, "age", 35),
         gender_encoded |-> gender_encoded(profile),
         days_with_data |-> unique_days(ms),
         trend_heart_rate |-> compute_trend(heart_rate_data),
         trend_steps |-> compute_trend(steps_data),
         trend_sleep |-> compute_trend(sleep_data)]

\* The number-valued fields in which an exception raised by a helper shows.
NumberFields ==
    {"heart_rate_mean", "heart_rate_max", "heart_rate_min", "steps_mean",
     "steps_total", "sleep_hours_mean", "calories_mean",
     "trend_heart_rate", "trend_steps", "trend_sleep"}

\* compute_features raised instead of returning.
raises(f) ==
    \/ f.gender_encoded = AttributeError
    \/ \E k \in NumberFields : IsError(f[k])
    \/ \E k \in {"heart_rate_std", "steps_std", "sleep_hours_std", "calories_std"} :
          IsError(f[k].radicand)

-----------------------------------------------------------------------------
(* The copy of the core in local_server_realdata.py.  Its nested helpers   *)
(* mean, std and compute_trend are the same text as in local_server.py.    *)

\* str(x): a str is itself; a datetime prints as "YYYY-MM-DD HH:MM:SS".
str(ts) == [repr |-> "str", day |-> ts.day, hour |-> ts.hour]

\* len(set(str(m.get('timestamp', ''))[:10] for m in metrics))
unique_days_realdata(ms) ==
    Cardinality({prefix10(str(ms[i].timestamp)) : i \in DOMAIN ms})

compute_features_realdata(ms, profile) ==
    LET heart_rate_data == SelectValues(ms, "heart_rate")
        steps_data == SelectValues(ms, "steps")
        sleep_data == SelectValues(ms, "sleep")
        calories_data == SelectValues(ms, "calories")
    IN  [heart_rate_mean |-> mean(heart_rate_data),
         heart_rate_std |-> std(heart_rate_data),
         heart_rate_max |-> IF heart_rate_data # <<>> THEN max(heart_rate_data) ELSE Zero,
         heart_rate_min |-> IF heart_rate_data # <<>> THEN min(heart_rate_data) ELSE Zero,
         steps_mean |-> mean(steps_data),
         steps_std |-> std(steps_data),
         steps_total |-> sum(steps_data),
         sleep_hours_mean |-> mean(sleep_data),
         sleep_hours_std |-> std(sleep_data),
         calories_mean |-> mean(calories_data),
         calories_std |-> std(calories_data),
         age |-> get(profile, "age", 35),
         gender_encoded |-> IF get(profile, "gender", male) = NoneGender THEN AttributeError
                            ELSE IF lower(get(profile, "gender", male)) = male THEN 1
                            ELSE 0,
         days_with_data |-> unique_days_realdata(ms),
         trend_heart_rate |-> compute_trend(heart_rate_data),
         trend_steps |-> compute_trend(steps_data),
         trend_sleep |-> compute_trend(sleep_data)]

\* calculate_risk_score of local_server_realdata.py: `risk` after each block.
calculate_risk_score_realdata(f) ==
    LET hr_mean == f.heart_rate_mean
        steps_mean == f.steps_mean
        sleep_mean == f.sleep_hours_mean
        cal_mean == f.calories_mean
        age == f.age
        risk1 == IF RGt(hr_mean, Int2Rat(100)) THEN Rat(30, 100)
                 ELSE IF RGt(hr_mean, Int2Rat(90)) THEN Rat(25, 100)
                 ELSE IF RGt(hr_mean, Int2Rat(80)) THEN Rat(15, 100)
                 ELSE IF RLt(hr_mean, Int2Rat(50)) THEN Rat(20, 100)
                 ELSE IF RLt(hr_mean, Int2Rat(60)) THEN Rat(10, 100)
                 ELSE Zero
        risk2 == RAdd(risk1,
                      IF RLt(steps_mean, Int2Rat(3000)) THEN Rat(30, 100)
                      ELSE IF RLt(steps_mean, Int2Rat(5000)) THEN Rat(20, 100)
                      ELSE IF RLt(steps_mean, Int2Rat(7000)) THEN Rat(10, 100)
                      ELSE Zero)
        risk3 == RAdd(risk2,
                      IF RLt(sleep_mean, Int2Rat(5)) THEN Rat(20, 100)
                      ELSE IF RLt(sleep_mean, Int2Rat(6)) THEN Rat(15, 100)
                      ELSE IF RLt(sleep_mean, Int2Rat(7)) THEN Rat(10, 100)
                      ELSE IF RGt(sleep_mean, Int2Rat(10)) THEN Rat(10, 100)
                      ELSE Zero)
        risk4 == RAdd(risk3,
                      IF RGt(cal_mean, Int2Rat(3000)) THEN Rat(10, 100)
                      ELSE IF RGt(cal_mean, Int2Rat(2800)) THEN Rat(5, 100)
                      ELSE IF RLt(cal_mean, Int2Rat(1500)) THEN Rat(8, 100)
                      ELSE Zero)
        risk5 == RAdd(risk4,
                      IF age > 60 THEN Rat(10, 100)
                      ELSE IF age > 50 THEN Rat(5, 100)
                      ELSE IF age < 18 THEN Rat(3, 100)
                      ELSE Zero)
        risk6 == RAdd(risk5, IF RGt(f.trend_heart_rate, Rat(5, 10)) THEN Rat(5, 100) ELSE Zero)
        risk7 == RAdd(risk6, IF RLt(f.trend_steps, Int2Rat(-50)) THEN Rat(5, 100) ELSE Zero)
        risk8 == RAdd(risk7, IF RLt(f.trend_sleep, Rat(-1, 10)) THEN Rat(5, 100) ELSE Zero)
    IN  RMax(Zero, RMin(One, risk8))

-----------------------------------------------------------------------------
(* _generate_prediction_response.  `now` maps the forecast iteration i to  *)
(* the calendar day that datetime.now() gives in that iteration.           *)

\* risk_level with <= in place of <.
risk_level_inclusive(score) ==
    IF RLe(score, Rat(3, 10)) THEN "low"
    ELSE IF RLe(score, Rat(6, 10)) THEN "medium"
    ELSE "high"

risk_level(score) ==
    IF RLt(score, Rat(3, 10)) THEN "low"
    ELSE IF RLt(score, Rat(6, 10)) THEN "medium"
    ELSE "high"

\* round(abs(mean - baseline) / baseline, 2)
impact(m, baseline) == Round(RDiv(RAbs(RSub(m, baseline)), baseline), 100)

hr_status(hr_mean) ==
    IF RGt(hr_mean, Int2Rat(80)) \/ RLt(hr_mean, Int2Rat(60)) THEN "warning" ELSE "good"

steps_status(steps_mean) ==
    IF RLt(steps_mean, Int2Rat(5000)) THEN "critical"
    ELSE IF RLt(steps_mean, Int2Rat(7000)) THEN "warning"
    ELSE "good"

sleep_status(sleep_mean) ==
    IF RLt(sleep_mean, Int2Rat(6)) THEN "critical"
    ELSE IF RLt(sleep_mean, Int2Rat(7)) THEN "warning"
    ELSE "good"

\* cal_status with the threshold of the diet recommendation, 2500.
cal_status_above_2500(cal_mean) ==
    IF RGt(cal_mean, Int2Rat(2500)) THEN "warning" ELSE "good"

cal_status(cal_mean) == IF RGt(cal_mean, Int2Rat(2800)) THEN "warning" ELSE "good"

\* The list before it is sorted, in the order of the append calls.
factor_list(f) ==
    << [feature |-> "heart_rate",
        impact |-> impact(f.heart_rate_mean, Int2Rat(70)),
        status |-> hr_status(f.heart_rate_mean)],
       [feature |-> "steps",
        impact |-> impact(f.steps_mean, Int2Rat(8000)),
        status |-> steps_status(f.steps_mean)],
       [feature |-> "sleep",
        impact |-> impact(f.sleep_hours_mean, Rat(15, 2)),
        status |-> sleep_status(f.sleep_hours_mean)],
       [feature |-> "calories",
        impact |-> impact(f.calories_mean, Int2Rat(2200)),
        status |-> cal_status(f.calories_mean)] >>

\* InsertByImpact placing e in front of the entries of equal impact.
RECURSIVE InsertBeforeEqual(_, _)
InsertBeforeEqual(sorted, e) ==
    IF sorted = <<>> THEN <<e>>
    ELSE IF RLe(sorted[1].impact, e.impact) THEN <<e>> \o sorted
    ELSE <<sorted[1]>> \o InsertBeforeEqual(Tail(sorted), e)

\* e placed behind every entry whose impact is not smaller than its own.
RECURSIVE InsertByImpact(_, _)
InsertByImpact(sorted, e) ==
    IF sorted = <<>> THEN <<e>>
    ELSE IF RLt(sorted[1].impact, e.impact) THEN <<e>> \o sorted
    ELSE <<sorted[1]>> \o InsertByImpact(Tail(sorted), e)

RECURSIVE SortByImpact(_, _)
SortByImpact(sorted, rest) ==
    IF rest = <<>> THEN sorted
    ELSE SortByImpact(InsertByImpact(sorted, rest[1]), Tail(rest))

\* list.sort(key=lambda x: x['impact'], reverse=True): descending and stable.
contributing_factors(f) == SortByImpact(<<>>, factor_list(f))

StressMessage ==
    "Consider stress management techniques to lower resting heart rate"
ActivityMessage ==
    "Increase daily physical activity - aim for at least 8000 steps per day"
SleepMessage == "Improve sleep quality - aim for 7-8 hours per night"
DietMessage == "Monitor calorie intake and consider dietary adjustments"
FallbackMessage == "Keep up the great work! Maintain your healthy lifestyle"

\* recommendations without the `if not recommendations` branch.
recommendations_no_fallback(f) ==
    (IF RGt(f.heart_rate_mean, Int2Rat(80)) THEN <<StressMessage>> ELSE <<>>)
    \o (IF RLt(f.steps_mean, Int2Rat(7000)) THEN <<ActivityMessage>> ELSE <<>>)
    \o (IF RLt(f.sleep_hours_mean, Int2Rat(7)) THEN <<SleepMessage>> ELSE <<>>)
    \o (IF RGt(f.calories_mean, Int2Rat(2500)) THEN <<DietMessage>> ELSE <<>>)

recommendations(f) ==
    LET triggered ==
            (IF RGt(f.heart_rate_mean, Int2Rat(80)) THEN <<StressMessage>> ELSE <<>>)
         \o (IF RLt(f.steps_mean, Int2Rat(7000)) THEN <<ActivityMessage>> ELSE <<>>)
         \o (IF RLt(f.sleep_hours_mean, Int2Rat(7)) THEN <<SleepMessage>> ELSE <<>>)
         \o (IF RGt(f.calories_mean, Int2Rat(2500)) THEN <<DietMessage>> ELSE <<>>)
    IN  IF triggered = <<>> THEN <<FallbackMessage>> ELSE triggered

trend_adjustment(f, i) ==
    RMul(RAdd(RAdd(RMul(f.trend_heart_rate, Rat(3, 10)),
                   RMul(f.trend_steps, Rat(-1, 10000))),
              RMul(f.trend_sleep, Rat(-5, 100))),
         Int2Rat(i))

predicted_risk(score, f, i) ==
    RMax(Zero, RMin(One, RAdd(score, RMul(trend_adjustment(f, i), Rat(1, 100)))))

\* trend_point with the band of the mock prediction: no clamp on the bounds.
trend_point_band_not_clamped(score, f, i, today) ==
    LET p == predicted_risk(score, f, i)
    IN  [date |-> today + i,
         predicted_risk |-> Round(p, 1000),
         confidence_lower |-> Round(RSub(p, Rat(1, 10)), 1000),
         confidence_upper |-> Round(RAdd(p, Rat(1, 10)), 1000)]

\* trend_point with the band taken around the estimate before its clamp.
trend_point_band_of_raw(score, f, i, today) ==
    LET raw == RAdd(score, RMul(trend_adjustment(f, i), Rat(1, 100)))
    IN  [date |-> today + i,
         predicted_risk |-> Round(RMax(Zero, RMin(One, raw)), 1000),
         confidence_lower |-> Round(RMax(Zero, RSub(raw, Rat(1, 10))), 1000),
         confidence_upper |-> Round(RMin(One, RAdd(raw, Rat(1, 10))), 1000)]

trend_point(score, f, i, today) ==
    LET p == predicted_risk(score, f, i)
    IN  [date |-> today + i,
         predicted_risk |-> Round(p, 1000),
         confidence_lower |-> Round(RMax(Zero, RSub(p, Rat(1, 10))), 1000),
         confidence_upper |-> Round(RMin(One, RAdd(p, Rat(1, 10))), 1000)]

predicted_trend(score, f, now) ==
    [i \in 1..7 |-> trend_point(score, f, i, now[i])]

generate_prediction_response(score, f, now) ==
    [success |-> TRUE,
     prediction |->
        [risk_score |-> Round(score, 1000),
         risk_level |-> risk_level(score),
         confidence |-> Rat(85, 100),
         contributing_factors |-> contributing_factors(f),
         recommendations |-> recommendations(f),
         predicted_trend |-> predicted_trend(score, f, now)]]

-----------------------------------------------------------------------------
(* The random module.  Its generator is deterministic: a hidden state, here *)
(* a number in 0..RandomPeriod-1, fixes the value of the next call, and     *)
(* every call moves the state on by one.  random() takes the values 0, 1/2 *)
(* and 1 (the ends of the range and its middle).                           *)

RandomPeriod == 7    \* number of states of the generator

\* The state k calls after state s.
advance(s, k) == (s + k) % RandomPeriod

\* random.random() in state s
random(s) == Rat(s % 3, 2)

\* random.uniform(a, b) in state s: a + (b - a) * random()
uniform(a, b, s) == RAdd(a, RMul(RSub(b, a), random(s)))

\* random.randint(a, b) in state s, a and b integers with b - a even
randint(a, b, s) == a + ((b - a) \div 2) * (s % 3)

\* random.choice(seq) in state s
choice(seq, s) == seq[1 + (((s % 3) * Len(seq)) \div 3)]

-----------------------------------------------------------------------------
(* _generate_mock_prediction: the document it writes.  s is the state of   *)
(* the generator when it is called; it makes 12 calls.                     *)

ExerciseMessage == "Maintain consistent exercise routine"

mock_prediction(s, now) ==
    LET base_risk == uniform(Rat(2, 10), Rat(7, 10), s)
    IN  [success |-> TRUE,
         prediction |->
            [risk_score |-> Round(base_risk, 1000),
             risk_level |-> IF RLt(base_risk, Rat(3, 10)) THEN "low"
                            ELSE IF RLt(base_risk, Rat(6, 10)) THEN "medium"
                            ELSE "high",
             confidence |-> Rat(85, 100),
             contributing_factors |->
                << [feature |-> "steps",
                    impact |-> Round(uniform(Rat(3, 10), Rat(5, 10), advance(s, 1)), 100),
                    status |-> "warning"],
                   [feature |-> "sleep",
                    impact |-> Round(uniform(Rat(2, 10), Rat(4, 10), advance(s, 2)), 100),
                    status |-> "warning"],
                   [feature |-> "heart_rate",
                    impact |-> Round(uniform(Rat(1, 10), Rat(3, 10), advance(s, 3)), 100),
                    status |-> "good"],
                   [feature |-> "calories",
                    impact |-> Round(uniform(Rat(5, 100), Rat(15, 100), advance(s, 4)), 100),
                    status |-> "good"] >>,
             recommendations |-> <<ActivityMessage, SleepMessage, ExerciseMessage>>,
             predicted_trend |->
                [i \in 1..7 |->
                    [date |-> now[i] + i,
                     predicted_risk |->
                        Round(RAdd(base_risk,
                                   uniform(Rat(-5, 100), Rat(5, 100), advance(s, 4 + i))),
                              1000),
                     confidence_lower |-> Round(RSub(base_risk, Rat(1, 10)), 1000),
                     confidence_upper |-> Round(RAdd(base_risk, Rat(1, 10)), 1000)]]]]

-----------------------------------------------------------------------------
(* _generate_realistic_prediction of local_server_realdata.py.             *)

\* int(hashlib.md5(user_id.encode()).hexdigest()[:8], 16): some fixed number
\* for each user id.
md5_seed(user_id) ==
    CASE user_id = "u1" -> 10
      [] user_id = "u2" -> 19
      [] OTHER -> 0

\* random.seed(n) leaving the generator as it is.
seed_ignored(n) == random_state

\* The state random.seed(n) puts the generator in.
seed(n) == n % RandomPeriod

\* The feature dict drawn with the generator in state s (15 calls).
realistic_features(s) ==
    LET base_hr == uniform(Int2Rat(65), Int2Rat(85), s)
        base_steps == uniform(Int2Rat(4000), Int2Rat(9000), advance(s, 1))
        base_sleep == uniform(Rat(55, 10), Int2Rat(8), advance(s, 2))
        base_calories == uniform(Int2Rat(1900), Int2Rat(2600), advance(s, 3))
    IN  [heart_rate_mean |-> base_hr,
         heart_rate_std |-> uniform(Int2Rat(5), Int2Rat(15), advance(s, 4)),
         heart_rate_max |-> RAdd(base_hr, uniform(Int2Rat(15), Int2Rat(30), advance(s, 5))),
         heart_rate_min |-> RSub(base_hr, uniform(Int2Rat(10), Int2Rat(20), advance(s, 6))),
         steps_mean |-> base_steps,
         steps_std |-> uniform(Int2Rat(1000), Int2Rat(2500), advance(s, 7)),
         steps_total |-> RMul(base_steps, Int2Rat(30)),
         sleep_hours_mean |-> base_sleep,
         sleep_hours_std |-> uniform(Rat(5, 10), Rat(15, 10), advance(s, 8)),
         calories_mean |-> base_calories,
         calories_std |-> uniform(Int2Rat(200), Int2Rat(400), advance(s, 9)),
         age |-> randint(25, 55, advance(s, 10)),
         gender_encoded |-> choice(<<0, 1>>, advance(s, 11)),
         days_with_data |-> 30,
         trend_heart_rate |-> uniform(Rat(-5, 10), Rat(5, 10), advance(s, 12)),
         trend_steps |-> uniform(Int2Rat(-100), Int2Rat(100), advance(s, 13)),
         trend_sleep |-> uniform(Rat(-2, 10), Rat(2, 10), advance(s, 14))]

generate_realistic_prediction(user_id, now) ==
    LET f == realistic_features(seed(md5_seed(user_id)))
        r == generate_prediction_response(calculate_risk_score_realdata(f), f, now)
    IN  [success |-> r.success,
         prediction |-> r.prediction,
         debug_info |->
            [data_source |-> "real_patient_metrics",
             metrics_analyzed |->
                [heart_rate_avg |-> Round(f.heart_rate_mean, 10),
                 steps_avg |-> Round(f.steps_mean, 1),
                 sleep_avg |-> Round(f.sleep_hours_mean, 10),
                 calories_avg |-> Round(f.calories_mean, 1)]]]

\* json.dumps(obj) for a dict, and for None.
dumps(obj) == [object |-> obj]
dumps_None == [null |-> TRUE]

-----------------------------------------------------------------------------
(* _handle_predict of local_server.py, from the request to the last write. *)
(* body: the parsed request; db: whether the Firestore client exists;      *)
(* user_doc and stream: what the two Firestore reads give; now: the clock; *)
(* s: the state of the random generator.  The result names the locals of   *)
(* the handler after its last statement, the functions of the core it      *)
(* invoked, the branch it took and what it wrote.                          *)

\* `not user_id`
falsy(user_id) == user_id \in {None, ""}

\* The locals of a handler that never reached the core.
no_core ==
    [metrics |-> <<>>, user_profile |-> <<>>, features |-> None,
     risk_score |-> None, response |-> None, invoked |-> {}]

\* response = self._generate_mock_prediction(user_id), then the final
\* self.wfile.write(json.dumps(response)): the mock writes its document
\* itself and returns None.
mock_then_write(locals, now, s) ==
    [metrics |-> locals.metrics, user_profile |-> locals.user_profile,
     features |-> locals.features, risk_score |-> locals.risk_score,
     response |-> None, invoked |-> locals.invoked,
     wfile |-> <<dumps(mock_prediction(s, now)), dumps_None>>,
     random_state |-> advance(s, 12),
     path |-> locals.path]

\* The final self.wfile.write(json.dumps(response)) after a real prediction.
write_response(locals) == locals @@ [wfile |-> <<dumps(locals.response)>>]

handle_predict(body, db, user_doc, stream, now, s) ==
    IF ~body.parses
    THEN no_core @@
         [wfile |-> <<dumps([success |-> FALSE, error |-> "str(e)"])>>,
          random_state |-> s, path |-> "bad request"]
    ELSE IF falsy(body.userId)
    THEN no_core @@
         [wfile |-> <<dumps([success |-> FALSE, error |-> "userId is required"])>>,
          random_state |-> s, path |-> "missing userId"]
    ELSE IF ~db
    THEN mock_then_write(no_core @@ [path |-> "no database"], now, s)
    ELSE IF user_doc.outcome = "raises" \/ stream.outcome = "raises"
    THEN mock_then_write(no_core @@ [path |-> "Firestore error"], now, s)
    ELSE LET profile == IF user_doc.outcome = "found" THEN user_doc.dict
                        ELSE [age |-> 35, gender |-> male]
             ms == stream.docs
             fetched == [no_core EXCEPT !.metrics = ms, !.user_profile = profile]
         IN  IF Len(ms) < 10
             THEN mock_then_write(fetched @@ [path |-> "insufficient data"], now, s)
             ELSE LET f == compute_features(ms, profile)
                      score == calculate_risk_score(f)
                  IN  IF raises(f)
                      THEN mock_then_write(
                               [fetched EXCEPT !.invoked = {"compute_features"}]
                               @@ [path |-> "core error"], now, s)
                      ELSE write_response([metrics |-> ms, user_profile |-> profile,
                            features |-> f, risk_score |-> score,
                            response |-> generate_prediction_response(score, f, now),
                            invoked |-> {"compute_features", "calculate_risk_score",
                                         "_generate_prediction_response"},
                            random_state |-> s, path |-> "real data"])

-----------------------------------------------------------------------------
(* Inputs.                                                                 *)

MaxRecords == 2      \* longest list of records handed to compute_features
MaxSeriesLen == 4    \* longest sub-series handed to compute_trend alone
MaxIndexCount == 40  \* largest n the denominator of compute_trend is evaluated for

KnownTypes == {"heart_rate", "steps", "sleep", "calories"}
\* "weight" stands for a metricType that is none of the four known ones.
MetricTypes == KnownTypes \cup {"weight"}

ValuesOf(type) ==
    CASE type = "heart_rate" -> {55, 105}
      [] type = "steps" -> {2000, 8500}
      [] type = "sleep" -> {4, 8}
      [] type = "calories" -> {2200, 3200}
      [] OTHER -> {1}

Timestamps ==
    {[repr |-> "datetime", day |-> 1, hour |-> 8],
     [repr |-> "str", day |-> 1, hour |-> 20],
     [repr |-> "str", day |-> 2, hour |-> 8]}

Records ==
    UNION {[timestamp : Timestamps, metricType : {t}, value : ValuesOf(t)] :
             t \in MetricTypes}

\* The gender of a profile: a str, or None as a document holds it whose gender
\* field is null.
Genders ==
    {male, <<"M", "A", "L", "E">>, <<"f", "e", "m", "a", "l", "e">>,
     <<"o", "t", "h", "e", "r">>, NoneGender}
Ages == {64}

\* Every profile in which age and gender are each present or absent.
Profiles ==
    {<<>>} \cup {[age |-> a] : a \in Ages} \cup {[gender |-> g] : g \in Genders}
    \cup {[age |-> a, gender |-> male] : a \in Ages}

\* datetime.now() is read once in every iteration of the forecast loop.
\* MidnightAt(k): midnight passes just before the read of iteration k (never
\* for k = 8); the call begins on day 0.
MidnightAt(k) == [i \in 1..7 |-> IF i >= k THEN 1 ELSE 0]
\* The clock does not pass midnight while a response is built.
SteadyClock == {MidnightAt(8)}
\* Midnight passes before at most one of the iterations.
Clocks == {MidnightAt(k) : k \in 1..8}

\* Feature vectors for calculate_risk_score and the response builder alone:
\* the fields they read take values on, between and beyond the thresholds.
HrMeans == {49, 50, 60, 68, 80, 90, 100, 105}
StepsMeans == {2000, 3000, 5000, 7000, 8500}
SleepMeans == {Int2Rat(4), Int2Rat(5), Int2Rat(6), Int2Rat(7), Rat(15, 2),
               Int2Rat(10), Int2Rat(11)}
CalMeans == {1400, 1500, 2200, 2800, 3000, 3200}
ScoreAges == {17, 18, 35, 50, 60, 65}
HrTrends == {Zero, Rat(5, 10), Rat(6, 10)}
StepsTrends == {Zero, Int2Rat(-60)}
SleepTrends == {Zero, Rat(-2, 10)}

FeatureVector(hr, st, sl, ca, ag, th, ts, tsl) ==
    [heart_rate_mean |-> Int2Rat(hr), heart_rate_std |-> Root(Zero),
     heart_rate_max |-> Int2Rat(hr), heart_rate_min |-> Int2Rat(hr),
     steps_mean |-> Int2Rat(st), steps_std |-> Root(Zero),
     steps_total |-> Int2Rat(st),
     sleep_hours_mean |-> sl, sleep_hours_std |-> Root(Zero),
     calories_mean |-> Int2Rat(ca), calories_std |-> Root(Zero),
     age |-> ag, gender_encoded |-> 1, days_with_data |-> 1,
     trend_heart_rate |-> th, trend_steps |-> ts, trend_sleep |-> tsl]

FeatureVectors ==
    {FeatureVector(hr, st, sl, ca, ag, th, ts, tsl) :
        hr \in HrMeans, st \in StepsMeans, sl \in SleepMeans, ca \in CalMeans,
        ag \in ScoreAges, th \in HrTrends, ts \in StepsTrends, tsl \in SleepTrends}

\* Inputs of the forecast alone: any score in [0, 1] with trends that carry
\* the estimate over either end of [0, 1] or leave it inside.
ForecastScores == {Zero, Rat(1, 20), Rat(1, 3), Rat(1, 2), Rat(19, 20), One}
ForecastHrTrends == {Int2Rat(-50), Zero, Rat(1, 2), Int2Rat(50)}
ForecastStepsTrends == {Zero, Int2Rat(1000)}
ForecastSleepTrends == {Zero, Int2Rat(-2)}
ForecastVectors ==
    {FeatureVector(68, 8500, Rat(15, 2), 2200, 35, th, ts, tsl) :
        th \in ForecastHrTrends, ts \in ForecastStepsTrends,
        tsl \in ForecastSleepTrends}

\* Inputs of the request handlers.
MaxFetched == 11     \* most records a Firestore query returns

UserIds == {"u1", "u2"}

\* The request body: unreadable, or JSON whose userId is absent, empty or set.
Bodies ==
    {[parses |-> FALSE]}
    \cup {[parses |-> TRUE, userId |-> u] : u \in {None, ""} \cup UserIds}

FetchedProfiles ==
    {<<>>, [age |-> 64, gender |-> <<"f", "e", "m", "a", "l", "e">>],
     [age |-> 64, gender |-> NoneGender]}

\* db.collection('patients').document(user_id).get()
UserDocs ==
    {[outcome |-> "raises"], [outcome |-> "missing"]}
    \cup {[outcome |-> "found", dict |-> p] : p \in FetchedProfiles}

\* n records as Firestore returns them: heart rates that go up and down, or
\* the four metric types in turn; four records a day.
FetchedDocs(kind, n) ==
    [i \in 1..n |->
        [timestamp |-> [repr |-> "datetime", day |-> 1 + ((i - 1) \div 4), hour |-> 8],
         metricType |-> IF kind = "heart_rate" THEN "heart_rate"
                        ELSE <<"heart_rate", "steps", "sleep", "calories">>[1 + (i % 4)],
         value |-> IF kind = "heart_rate" THEN (IF i % 2 = 1 THEN 55 ELSE 105)
                   ELSE <<105, 2000, 4, 3200>>[1 + (i % 4)]]]

\* query.stream()
Streams ==
    {[outcome |-> "raises"]}
    \cup {[outcome |-> "docs", docs |-> FetchedDocs(kind, n)] :
             kind \in {"heart_rate", "mixed"}, n \in 0..MaxFetched}

\* The clock while a request is handled: steady, or passing midnight once.
HandlerClocks == {MidnightAt(8), MidnightAt(4)}

Servers == {"local_server", "local_server_realdata"}

\* Requests served one after the other by local_server: enough records for
\* the core when the database is there, the mock prediction when it is not.
MaxCalls == 3        \* requests served one after the other
RepeatBodies == {[parses |-> TRUE, userId |-> "u1"]}
RepeatUserDocs ==
    {[outcome |-> "missing"],
     [outcome |-> "found", dict |-> [age |-> 64, gender |-> <<"f", "e", "m", "a", "l", "e">>]]}
RepeatStreams ==
    {[outcome |-> "docs", docs |-> FetchedDocs(kind, 10)] : kind \in {"heart_rate", "mixed"}}

SeriesValues == {Rat(n, 2) : n \in 0..6}

-----------------------------------------------------------------------------
(* The pipeline of _handle_predict on fetched records: compute_features,   *)
(* calculate_risk_score, _generate_prediction_response.                    *)

Init ==
    /\ metrics = <<>>
    /\ user_profile \in Profiles
    /\ features = None
    /\ risk_score = None
    /\ response = None
    /\ values = <<>>
    /\ trend = None
    /\ clock \in SteadyClock
    /\ request = None
    /\ wfile = <<>>
    /\ random_state = 0
    /\ calls = <<>>
    /\ pc = "input"

\* One more fetched record.
AddRecord ==
    /\ pc = "input"
    /\ Len(metrics) < MaxRecords
    /\ \E m \in Records : metrics' = Append(metrics, m)
    /\ UNCHANGED <<clock, request, wfile, random_state, calls>>
    /\ UNCHANGED <<user_profile, features, risk_score, response, values, trend, pc>>

\* features = compute_features(metrics, user_profile)
ComputeFeatures ==
    /\ pc = "input"
    /\ LET f == compute_features(metrics, user_profile)
       IN  IF raises(f)
           THEN pc' = "raised" /\ UNCHANGED features
           ELSE pc' = "features" /\ features' = f
    /\ UNCHANGED <<clock, request, wfile, random_state, calls>>
    /\ UNCHANGED <<metrics, user_profile, risk_score, response, values, trend>>

\* risk_score = calculate_risk_score(features)
CalculateRiskScore ==
    /\ pc = "features"
    /\ risk_score' = calculate_risk_score(features)
    /\ pc' = "scored"
    /\ UNCHANGED <<clock, request, wfile, random_state, calls>>
    /\ UNCHANGED <<metrics, user_profile, features, response, values, trend>>

\* response = self._generate_prediction_response(risk_score, features, user_id)
GeneratePredictionResponse ==
    /\ pc = "scored"
    /\ response' = generate_prediction_response(risk_score, features, clock)
    /\ pc' = "done"
    /\ UNCHANGED <<clock, request, wfile, random_state, calls>>
    /\ UNCHANGED <<metrics, user_profile, features, risk_score, values, trend>>

Next == AddRecord \/ ComputeFeatures \/ CalculateRiskScore \/ GeneratePredictionResponse

Spec == Init /\ [][Next]_vars

\* calculate_risk_score and the response builder on any feature vector.
InitScore ==
    /\ metrics = <<>>
    /\ user_profile = <<>>
    /\ features \in FeatureVectors
    /\ risk_score = None
    /\ response = None
    /\ values = <<>>
    /\ trend = None
    /\ clock \in SteadyClock
    /\ request = None
    /\ wfile = <<>>
    /\ random_state = 0
    /\ calls = <<>>
    /\ pc = "features"

NextScore == CalculateRiskScore \/ GeneratePredictionResponse

SpecScore == InitScore /\ [][NextScore]_vars

\* The response builder on any score in [0, 1], any trends and any clock.
InitForecast ==
    /\ metrics = <<>>
    /\ user_profile = <<>>
    /\ features \in ForecastVectors
    /\ risk_score \in ForecastScores
    /\ response = None
    /\ values = <<>>
    /\ trend = None
    /\ clock \in Clocks
    /\ request = None
    /\ wfile = <<>>
    /\ random_state = 0
    /\ calls = <<>>
    /\ pc = "scored"

NextForecast == GeneratePredictionResponse

SpecForecast == InitForecast /\ [][NextForecast]_vars

\* The request handlers of the two servers, each serving one request with the
\* random generator in any state.
InitHandler ==
    /\ metrics = <<>>
    /\ user_profile = <<>>
    /\ features = None
    /\ risk_score = None
    /\ response = None
    /\ values = <<>>
    /\ trend = None
    /\ clock \in SteadyClock
    /\ request \in {[server |-> sv] : sv \in Servers}
    /\ wfile = <<>>
    /\ random_state \in 0..(RandomPeriod - 1)
    /\ calls = <<>>
    /\ pc = "idle"

\* local_server: do_POST with path /predictHealthRisk, i.e. one run of
\* _handle_predict on a request drawn from the given sets.
HandleOn(bodies, dbs, user_docs, streams, clocks) ==
    /\ request.server = "local_server"
    /\ \E body \in bodies, db \in dbs, user_doc \in user_docs, stream \in streams,
          now \in clocks :
          \E r \in {handle_predict(body, db, user_doc, stream, now, random_state)} :
              /\ request' = [server |-> request.server, body |-> body, db |-> db,
                             user_doc |-> user_doc, stream |-> stream,
                             path |-> r.path, invoked |-> r.invoked]
              /\ clock' = now
              /\ metrics' = r.metrics
              /\ user_profile' = r.user_profile
              /\ features' = r.features
              /\ risk_score' = r.risk_score
              /\ response' = r.response
              /\ wfile' = r.wfile
              /\ random_state' = r.random_state
    /\ pc' = "responded"
    /\ UNCHANGED <<values, trend>>

HandlePredict ==
    /\ pc = "idle"
    /\ HandleOn(Bodies, BOOLEAN, UserDocs, Streams, HandlerClocks)
    /\ UNCHANGED calls

\* local_server_realdata: one run of _handle_predict on a request drawn from
\* the given sets.
HandleRealdataOn(bodies, clocks) ==
    /\ request.server = "local_server_realdata"
    /\ \E body \in bodies, now \in clocks :
          /\ clock' = now
          /\ IF ~body.parses \/ falsy(body.userId)
             THEN /\ request' = [server |-> request.server, body |-> body,
                                 path |-> IF body.parses THEN "missing userId"
                                          ELSE "bad request"]
                  /\ wfile' = <<dumps([success |-> FALSE,
                                       error |-> IF body.parses THEN "userId is required"
                                                 ELSE "str(e)"])>>
                  /\ features' = None /\ risk_score' = None /\ response' = None
                  /\ UNCHANGED random_state
             ELSE LET s == seed(md5_seed(body.userId))
                  IN  /\ request' = [server |-> request.server, body |-> body,
                                     path |-> "seeded"]
                      /\ features' = realistic_features(s)
                      /\ risk_score' = calculate_risk_score_realdata(realistic_features(s))
                      /\ response' = generate_realistic_prediction(body.userId, now)
                      /\ wfile' = <<dumps(generate_realistic_prediction(body.userId, now))>>
                      /\ random_state' = advance(s, 15)
    /\ pc' = "responded"
    /\ UNCHANGED <<metrics, user_profile, values, trend>>

HandlePredictRealdata ==
    /\ pc = "idle"
    /\ HandleRealdataOn(Bodies, HandlerClocks)
    /\ UNCHANGED calls

NextHandler == HandlePredict \/ HandlePredictRealdata

SpecHandler == InitHandler /\ [][NextHandler]_vars

\* local_server serving requests one after the other; calls records what
\* each of them handed to the core and got back.
InitRepeat ==
    /\ metrics = <<>>
    /\ user_profile = <<>>
    /\ features = None
    /\ risk_score = None
    /\ response = None
    /\ values = <<>>
    /\ trend = None
    /\ clock \in SteadyClock
    /\ request = [server |-> "local_server"]
    /\ wfile = <<>>
    /\ random_state = 0
    /\ calls = <<>>
    /\ pc = "idle"

HandlePredictAgain ==
    /\ pc \in {"idle", "responded"}
    /\ Len(calls) < MaxCalls
    /\ HandleOn(RepeatBodies, BOOLEAN, RepeatUserDocs, RepeatStreams, HandlerClocks)
    /\ calls' = Append(calls,
                    IF "compute_features" \in request'.invoked
                    THEN [core |-> TRUE, metrics |-> metrics',
                          user_profile |-> user_profile', now |-> clock',
                          features |-> features', risk_score |-> risk_score',
                          response |-> response']
                    ELSE [core |-> FALSE])

NextRepeat == HandlePredictAgain

SpecRepeat == InitRepeat /\ [][NextRepeat]_vars

\* local_server_realdata serving requests one after the other; calls records
\* the userId of each and what it was answered.
InitRepeatRealdata ==
    /\ metrics = <<>>
    /\ user_profile = <<>>
    /\ features = None
    /\ risk_score = None
    /\ response = None
    /\ values = <<>>
    /\ trend = None
    /\ clock \in SteadyClock
    /\ request = [server |-> "local_server_realdata"]
    /\ wfile = <<>>
    /\ random_state \in 0..(RandomPeriod - 1)
    /\ calls = <<>>
    /\ pc = "idle"

HandlePredictRealdataAgain ==
    /\ pc \in {"idle", "responded"}
    /\ Len(calls) < MaxCalls
    /\ HandleRealdataOn(Bodies, HandlerClocks)
    /\ calls' = Append(calls,
                    IF request'.path = "seeded"
                    THEN [seeded |-> TRUE, userId |-> request'.body.userId,
                          random_state |-> random_state,
                          response |-> wfile'[1].object]
                    ELSE [seeded |-> FALSE])

NextRepeatRealdata == HandlePredictRealdataAgain

SpecRepeatRealdata == InitRepeatRealdata /\ [][NextRepeatRealdata]_vars

\* compute_trend on any sub-series.
InitTrend ==
    /\ metrics = <<>>
    /\ user_profile = <<>>
    /\ features = None
    /\ risk_score = None
    /\ response = None
    /\ values = <<>>
    /\ trend = None
    /\ clock \in SteadyClock
    /\ request = None
    /\ wfile = <<>>
    /\ random_state = 0
    /\ calls = <<>>
    /\ pc = "series"

AppendValue ==
    /\ pc = "series"
    /\ Len(values) < MaxSeriesLen
    /\ \E v \in SeriesValues : values' = Append(values, v)
    /\ UNCHANGED <<clock, request, wfile, random_state, calls>>
    /\ UNCHANGED <<metrics, user_profile, features, risk_score, response, trend, pc>>

ComputeTrend ==
    /\ pc = "series"
    /\ trend' = compute_trend(values)
    /\ pc' = "trend"
    /\ UNCHANGED <<clock, request, wfile, random_state, calls>>
    /\ UNCHANGED <<metrics, user_profile, features, risk_score, response, values>>

NextTrend == AppendValue \/ ComputeTrend

SpecTrend == InitTrend /\ [][NextTrend]_vars

-----------------------------------------------------------------------------
(* Claims about calculate_risk_score and the risk level (SpecScore).       *)

Scored == pc \in {"scored", "done"}

RuleTable ==
    [heart_rate_mean |->
        << <<">", Int2Rat(100), Rat(30, 100)>>, <<">", Int2Rat(90), Rat(25, 100)>>,
           <<">", Int2Rat(80), Rat(15, 100)>>, <<"<", Int2Rat(50), Rat(20, 100)>>,
           <<"<", Int2Rat(60), Rat(10, 100)>> >>,
     steps_mean |->
        << <<"<", Int2Rat(3000), Rat(30, 100)>>, <<"<", Int2Rat(5000), Rat(20, 100)>>,
           <<"<", Int2Rat(7000), Rat(10, 100)>> >>,
     sleep_hours_mean |->
        << <<"<", Int2Rat(5), Rat(20, 100)>>, <<"<", Int2Rat(6), Rat(15, 100)>>,
           <<"<", Int2Rat(7), Rat(10, 100)>>, <<">", Int2Rat(10), Rat(10, 100)>> >>,
     calories_mean |->
        << <<">", Int2Rat(3000), Rat(10, 100)>>, <<">", Int2Rat(2800), Rat(5, 100)>>,
           <<"<", Int2Rat(1500), Rat(8, 100)>> >>,
     age |->
        << <<">", Int2Rat(60), Rat(10, 100)>>, <<">", Int2Rat(50), Rat(5, 100)>>,
           <<"<", Int2Rat(18), Rat(3, 100)>> >>,
     trend_heart_rate |-> << <<">", Rat(5, 10), Rat(5, 100)>> >>,
     trend_steps |-> << <<"<", Int2Rat(-50), Rat(5, 100)>> >>,
     trend_sleep |-> << <<"<", Rat(-1, 10), Rat(5, 100)>> >>]

BandMatches(band, x) == IF band[1] = ">" THEN RGt(x, band[2]) ELSE RLt(x, band[2])

\* The contribution of the first band of `bands` that x matches, 0 if none.
RECURSIVE FirstMatch(_, _)
FirstMatch(bands, x) ==
    IF bands = <<>> THEN Zero
    ELSE IF BandMatches(bands[1], x) THEN bands[1][3]
    ELSE FirstMatch(Tail(bands), x)

RECURSIVE TableSum(_, _)
TableSum(f, keys) ==
    IF keys = {} THEN Zero
    ELSE LET k == CHOOSE q \in keys : TRUE
             x == IF k = "age" THEN Int2Rat(f[k]) ELSE f[k]
         IN  RAdd(FirstMatch(RuleTable[k], x), TableSum(f, keys \ {k}))

ReferenceScore(f) == RMin(One, TableSum(f, DOMAIN RuleTable))

ExampleLow ==
    FeatureVector(68, 8500, Rat(15, 2), 2200, 35, Zero, Zero, Zero)
ExampleHigh ==
    FeatureVector(105, 2000, Int2Rat(4), 3200, 65, Rat(6, 10), Zero, Zero)

\* C2: calculate_risk_score equals the reference rule table (per metric the
\* first matching band, the three trend rules independently, contributions
\* added, clamped at 1); the first example scores 0.0, the second sums to
\* 1.05 and scores 1.0.
C2_ScoreIsRuleTable ==
    Scored =>
        /\ risk_score = ReferenceScore(features)
        /\ features = ExampleLow => risk_score = Zero
        /\ features = ExampleHigh =>
              /\ TableSum(features, DOMAIN RuleTable) = Rat(105, 100)
              /\ risk_sum(features) = Rat(105, 100)
              /\ risk_score = One

C2_Witness ==
    /\ pc = "scored"
    /\ features = ExampleHigh
    /\ risk_score = One

\* level is the band of score s under the thresholds 0.3 and 0.6.
LevelMatches(level, s) ==
    /\ level = "low" <=> RLt(s, Rat(3, 10))
    /\ level = "medium" <=> (RLe(Rat(3, 10), s) /\ RLt(s, Rat(6, 10)))
    /\ level = "high" <=> RLe(Rat(6, 10), s)

\* C3: the risk_level of a prediction result is low iff score < 0.3, medium
\* iff 0.3 <= score < 0.6 and high iff score >= 0.6 (0.3 is medium, 0.6 is
\* high), and it agrees with the reported 3-decimal risk_score under the
\* same thresholds.
C3_LevelFollowsScore ==
    pc = "done" =>
        LET p == response.prediction
        IN  /\ p.risk_level \in {"low", "medium", "high"}
            /\ LevelMatches(p.risk_level, risk_score)
            /\ LevelMatches(p.risk_level, p.risk_score)

\* A score of exactly 0.3 is reported as medium.
C3_Witness ==
    /\ pc = "done"
    /\ risk_score = Rat(3, 10)
    /\ response.prediction.risk_level = "medium"

-----------------------------------------------------------------------------
(* Claims about compute_features (Spec) and compute_trend (SpecTrend).     *)

FeatureNames ==
    {"heart_rate_mean", "heart_rate_std", "heart_rate_max", "heart_rate_min",
     "steps_mean", "steps_std", "steps_total", "sleep_hours_mean",
     "sleep_hours_std", "calories_mean", "calories_std", "age",
     "gender_encoded", "days_with_data", "trend_heart_rate", "trend_steps",
     "trend_sleep"}

PredictionNames ==
    {"risk_score", "risk_level", "confidence", "contributing_factors",
     "recommendations", "predicted_trend"}

\* The profile has the documented shape: its gender, when present, is a str.
DocumentedShape(profile) ==
    "gender" \in DOMAIN profile => profile["gender"] # NoneGender

NoRecords(type) == \A i \in DOMAIN metrics : metrics[i].metricType # type

\* C5: for a metric type without records every aggregate of that metric
\* (mean, std, and max, min, total where defined) and its trend are 0.
C5_EmptyMetricIsZero ==
    pc = "features" =>
        /\ NoRecords("heart_rate") =>
              /\ features.heart_rate_mean = Zero
              /\ features.heart_rate_std = Root(Zero)
              /\ features.heart_rate_max = Zero
              /\ features.heart_rate_min = Zero
              /\ features.trend_heart_rate = Zero
        /\ NoRecords("steps") =>
              /\ features.steps_mean = Zero
              /\ features.steps_std = Root(Zero)
              /\ features.steps_total = Zero
              /\ features.trend_steps = Zero
        /\ NoRecords("sleep") =>
              /\ features.sleep_hours_mean = Zero
              /\ features.sleep_hours_std = Root(Zero)
              /\ features.trend_sleep = Zero
        /\ NoRecords("calories") =>
              /\ features.calories_mean = Zero
              /\ features.calories_std = Root(Zero)

\* Records are present, none of them a heart-rate record.
C5_Witness ==
    /\ pc = "features"
    /\ Len(metrics) = 2
    /\ NoRecords("heart_rate")
    /\ features.heart_rate_min = Zero
    /\ features.steps_mean # Zero

\* vals is v, v + k, v + 2k, ...
IsArithmetic(vals, k) ==
    \A i \in 1..(Len(vals) - 1) : RSub(vals[i + 1], vals[i]) = k

Trends(f) == <<f.trend_heart_rate, f.trend_steps, f.trend_sleep>>

Reordered(ms, p) == [i \in DOMAIN ms |-> ms[p[i]]]

\* The instant of a timestamp, in hours.
Instant(ts) == ts.day * 24 + ts.hour

\* ms is in chronological order, no two records at the same instant.
Chronological(ms) ==
    \A i \in 1..(Len(ms) - 1) : Instant(ms[i].timestamp) < Instant(ms[i + 1].timestamp)

\* C7: the three trends are the slopes of the values against their index in
\* chronological order, so that lists holding the same records in another
\* order have the same trends: whatever the order of the input list, the
\* trends are those of the records put in chronological order.
C7_TrendsAreChronological ==
    pc = "features" =>
        \A p \in Permutations(DOMAIN metrics) :
            Chronological(Reordered(metrics, p)) =>
                Trends(features)
                    = Trends(compute_features(Reordered(metrics, p), user_profile))

\* C8: days_with_data is the number of distinct calendar dates among the
\* timestamps of all records, whatever the metric type and however the
\* timestamp is represented.
C8_DaysAreCalendarDates ==
    pc = "features" =>
        features.days_with_data
            = Cardinality({metrics[i].timestamp.day : i \in DOMAIN metrics})

Without(ms, i) == SubSeq(ms, 1, i - 1) \o SubSeq(ms, i + 1, Len(ms))

\* C9: a record whose metricType is none of the four known ones changes no
\* field of the feature vector but days_with_data, in which its day counts.
C9_UnknownTypeOnlyCountsDay ==
    pc = "features" =>
        \A i \in DOMAIN metrics :
            metrics[i].metricType \notin KnownTypes =>
                LET rest == Without(metrics, i)
                    g == compute_features(rest, user_profile)
                IN  /\ \A k \in FeatureNames \ {"days_with_data"} : features[k] = g[k]
                    /\ features.days_with_data
                         = Cardinality({day_key(rest[j].timestamp) : j \in DOMAIN rest}
                                        \cup {day_key(metrics[i].timestamp)})

\* A calories record followed by a record of an unknown type on another day.
C9_Witness ==
    /\ pc = "features"
    /\ Len(metrics) = 2
    /\ metrics[1].metricType = "calories"
    /\ metrics[2].metricType \notin KnownTypes
    /\ metrics[1].timestamp.day # metrics[2].timestamp.day
    /\ features.days_with_data = 2

\* a and b are the same letter in upper or lower case.
SameLetter(a, b) ==
    \/ a = b
    \/ {a, b} \in {{"M", "m"}, {"A", "a"}, {"L", "l"}, {"E", "e"}, {"F", "f"}}

EqualsIgnoringCase(s, t) ==
    /\ Len(s) = Len(t)
    /\ \A i \in DOMAIN s : SameLetter(s[i], t[i])

\* C10: compute_features does not fail on any gender; gender_encoded is 1
\* when gender is absent or equals "male" whatever the case of its letters
\* and 0 for every other value; age is the profile's age, or 35 when age is
\* absent.
C10_Demographics ==
    /\ pc # "raised"
    /\ pc = "features" =>
        /\ features.gender_encoded \in {0, 1}
        /\ features.gender_encoded = 1 <=>
              \/ "gender" \notin DOMAIN user_profile
              \/ EqualsIgnoringCase(user_profile["gender"], male)
        /\ "age" \in DOMAIN user_profile => features.age = user_profile["age"]
        /\ "age" \notin DOMAIN user_profile => features.age = 35

-----------------------------------------------------------------------------
(* Claims about the response builder (SpecScore).                          *)

\* Position of a feature in the order in which the factors are appended.
EvaluationOrder(feature) ==
    CASE feature = "heart_rate" -> 1
      [] feature = "steps" -> 2
      [] feature = "sleep" -> 3
      [] feature = "calories" -> 4

\* C11: contributing_factors has exactly 4 entries, one for each of
\* heart_rate, steps, sleep and calories, ordered by non-increasing impact;
\* entries of equal rounded impact appear in the order heart_rate, steps,
\* sleep, calories.
C11_FactorsSortedStable ==
    pc = "done" =>
        LET cf == response.prediction.contributing_factors
        IN  /\ Len(cf) = 4
            /\ \A name \in {"heart_rate", "steps", "sleep", "calories"} :
                  Cardinality({i \in 1..Len(cf) : cf[i].feature = name}) = 1
            /\ \A i, j \in 1..Len(cf) :
                  i < j =>
                    /\ RLe(cf[j].impact, cf[i].impact)
                    /\ cf[i].impact = cf[j].impact =>
                          EvaluationOrder(cf[i].feature) < EvaluationOrder(cf[j].feature)

\* The sort moved an entry forward (steps leads) and left two entries of
\* equal impact in evaluation order behind it.
C11_Witness ==
    /\ pc = "done"
    /\ LET cf == response.prediction.contributing_factors
       IN  /\ cf[1].feature = "steps"
           /\ RLt(cf[2].impact, cf[1].impact)
           /\ \E i \in 2..3 : cf[i].impact = cf[i + 1].impact

\* The four triggers in their fixed order, each with whether it holds of f.
Triggers(f) ==
    << [holds |-> RGt(f.heart_rate_mean, Int2Rat(80)), message |-> StressMessage],
       [holds |-> RLt(f.steps_mean, Int2Rat(7000)), message |-> ActivityMessage],
       [holds |-> RLt(f.sleep_hours_mean, Int2Rat(7)), message |-> SleepMessage],
       [holds |-> RGt(f.calories_mean, Int2Rat(2500)), message |-> DietMessage] >>

\* s is strictly increasing.
Increasing(s) == \A i, j \in DOMAIN s : i < j => s[i] < s[j]

\* C12: recommendations is non-empty and lists the messages whose trigger
\* holds, in the order stress, activity, sleep, diet, each at most once; the
\* fallback message is present iff no trigger holds, and then it is the only
\* entry.
C12_Recommendations ==
    pc = "done" =>
        LET rec == response.prediction.recommendations
            t == Triggers(features)
            none == \A k \in 1..4 : ~t[k].holds
            fallback == \E i \in 1..Len(rec) : rec[i] = FallbackMessage
        IN  /\ Len(rec) >= 1
            /\ fallback <=> none
            /\ fallback => rec = <<FallbackMessage>>
            /\ ~fallback =>
                  \E at \in [1..Len(rec) -> 1..4] :
                      /\ Increasing(at)
                      /\ \A i \in 1..Len(rec) : rec[i] = t[at[i]].message
                      /\ \A k \in 1..4 : t[k].holds <=> \E i \in 1..Len(rec) : at[i] = k

\* No trigger holds and the fallback message is the whole list.
C12_Witness ==
    /\ pc = "done"
    /\ \A k \in 1..4 : ~Triggers(features)[k].holds
    /\ response.prediction.recommendations = <<FallbackMessage>>

-----------------------------------------------------------------------------
(* Claims about the 7-day forecast (SpecForecast).                         *)

\* The estimate of day i before it is clamped.
RawEstimate(i) == RAdd(risk_score, RMul(trend_adjustment(features, i), Rat(1, 100)))

\* C13: predicted_trend has exactly 7 entries, and in each of them
\* 0 <= confidence_lower <= predicted_risk <= confidence_upper <= 1 holds
\* of the values rounded to 3 decimals.
C13_ForecastBandsOrdered ==
    pc = "done" =>
        LET pt == response.prediction.predicted_trend
        IN  /\ DOMAIN pt = 1..7
            /\ \A i \in 1..7 :
                  /\ RLe(Zero, pt[i].confidence_lower)
                  /\ RLe(pt[i].confidence_lower, pt[i].predicted_risk)
                  /\ RLe(pt[i].predicted_risk, pt[i].confidence_upper)
                  /\ RLe(pt[i].confidence_upper, One)

\* An estimate that fell below 0 was clamped, and its lower bound with it.
C13_Witness ==
    /\ pc = "done"
    /\ \E i \in 1..7 :
         /\ RLt(RawEstimate(i), Zero)
         /\ response.prediction.predicted_trend[i].predicted_risk = Zero
         /\ response.prediction.predicted_trend[i].confidence_lower = Zero
         /\ response.prediction.predicted_trend[i].confidence_upper = Rat(1, 10)

\* x limited to [lo, hi] on both sides.
Clamp(x, lo, hi) == RMax(lo, RMin(hi, x))

\* C14: the band of each forecast point is taken around the clamped
\* estimate p: confidence_lower = clamp(p - 0.1, 0, 1) and confidence_upper =
\* clamp(p + 0.1, 0, 1), each rounded to 3 decimals, so the one-sided clamps
\* of the code agree with the two-sided ones and the width of the band lies
\* between 0.1 and 0.2.
C14_BandAroundClampedEstimate ==
    pc = "done" =>
        \A i \in 1..7 :
            LET e == response.prediction.predicted_trend[i]
                p == Clamp(RawEstimate(i), Zero, One)
                width == RSub(e.confidence_upper, e.confidence_lower)
            IN  /\ e.predicted_risk = Round(p, 1000)
                /\ e.confidence_lower = Round(Clamp(RSub(p, Rat(1, 10)), Zero, One), 1000)
                /\ e.confidence_upper = Round(Clamp(RAdd(p, Rat(1, 10)), Zero, One), 1000)
                /\ RLe(Rat(1, 10), width)
                /\ RLe(width, Rat(2, 10))

\* An estimate above 1 was clamped to 1 and the band is [0.9, 1].
C14_Witness ==
    /\ pc = "done"
    /\ \E i \in 1..7 :
         /\ RGt(RawEstimate(i), Rat(11, 10))
         /\ response.prediction.predicted_trend[i].confidence_lower = Rat(9, 10)
         /\ response.prediction.predicted_trend[i].confidence_upper = One

\* C15: the dates of the 7 forecast points are the days 1, 2, ..., 7 after
\* the day of one single instant of the call, hence consecutive, whatever the
\* clock does while the loop runs.
C15_DatesFromOneInstant ==
    pc = "done" =>
        \E today \in {0, 1} :
            \A i \in 1..7 : response.prediction.predicted_trend[i].date = today + i

-----------------------------------------------------------------------------
(* Claims about the guards of compute_trend (SpecTrend).                   *)

\* C19: the denominator n * sum(x^2) - (sum x)^2 over x = 0..n-1 is strictly
\* positive for every n >= 2, so compute_trend never returns by its
\* `denominator == 0` guard, and it returns 0 by a guard exactly for the
\* sub-series of length 0 or 1.
C19_DenominatorPositive ==
    /\ \A n \in 2..MaxIndexCount : denominator(n) > 0
    /\ pc = "trend" =>
          /\ compute_trend_return(values) # "denominator == 0"
          /\ compute_trend_return(values) = "len(values) < 2" <=> Len(values) < 2
          /\ Len(values) >= 2 => denominator(Len(values)) > 0

\* A trend of 0 that no guard produced: the slope of 0, 1, 1, 0 is 0.
C19_Witness ==
    /\ pc = "trend"
    /\ Len(values) = 4
    /\ compute_trend_return(values) = "slope"
    /\ denominator(4) = 20
    /\ trend = Zero

-----------------------------------------------------------------------------
(* Claims about the request handlers (SpecHandler).                        *)

\* local_server answered a request for which the database was available and
\* both Firestore reads succeeded.
FetchSucceeded ==
    /\ pc = "responded"
    /\ request.server = "local_server"
    /\ request.body.parses /\ ~falsy(request.body.userId)
    /\ request.db
    /\ request.user_doc.outcome # "raises"
    /\ request.stream.outcome = "docs"

\* The whole response body is one synthetic prediction.
BodyIsSynthetic ==
    \E s \in 0..(RandomPeriod - 1) : wfile = <<dumps(mock_prediction(s, clock))>>

\* The whole response body is the rule-based result of the fetched records.
BodyIsRuleBased ==
    LET f == compute_features(request.stream.docs, user_profile)
    IN  wfile = <<dumps(generate_prediction_response(calculate_risk_score(f), f, clock))>>

\* C17: when the database is available and the fetch succeeds,
\* compute_features and calculate_risk_score are invoked iff at least 10
\* records were fetched; with fewer than 10 (also 0) neither is invoked and
\* the synthetic prediction is the result, and with exactly 10 the rule-based
\* result computed from those records is the result.
C17_TenRecordThreshold ==
    FetchSucceeded =>
        LET n == Len(request.stream.docs)
        IN  /\ "compute_features" \in request.invoked <=> n >= 10
            /\ "calculate_risk_score" \in request.invoked <=> n >= 10
            /\ n < 10 => BodyIsSynthetic
            /\ n >= 10 => BodyIsRuleBased

\* The result was not computed from records of the subject.
Synthetic ==
    /\ pc = "responded"
    /\ request.path \in {"no database", "Firestore error", "insufficient data",
                         "core error", "seeded"}

\* A response computed from real records, for its shape.
RealResponse ==
    generate_prediction_response(Zero,
        FeatureVector(68, 8500, Rat(15, 2), 2200, 35, Zero, Zero, Zero), MidnightAt(8))

\* The document carries a field that a response computed from real records
\* does not have.
HasMarkerField(d) ==
    \/ DOMAIN d # DOMAIN RealResponse
    \/ DOMAIN d.prediction # DOMAIN RealResponse.prediction

\* The document says that it comes from real data.
LabelledReal(d) ==
    /\ "debug_info" \in DOMAIN d
    /\ d.debug_info.data_source = "real_patient_metrics"

\* C18: every result that is not computed from the subject's real records
\* (the mock prediction of local_server, the seeded prediction of
\* local_server_realdata) carries a field that tells it from a result
\* computed from real records, and is not labelled as coming from real data.
C18_SyntheticIsMarked ==
    Synthetic =>
        /\ HasMarkerField(wfile[1].object)
        /\ ~LabelledReal(wfile[1].object)

\* C20: for every POST /predictHealthRisk that local_server handles, exactly
\* one JSON document is written to the response body, on every path; nothing
\* is written after the prediction.
C20_OneDocumentPerRequest ==
    (pc = "responded" /\ request.server = "local_server") => Len(wfile) = 1

-----------------------------------------------------------------------------
(* Claims about repeated invocations (SpecRepeat).                         *)

\* C16: the core is deterministic and stateless: two invocations with the
\* same records, profile and "now" give the same feature vector, risk score,
\* risk level, contributing factors, recommendations and forecast, whatever
\* was served before or between them.
C16_CoreIsStateless ==
    \A i, j \in DOMAIN calls :
        (/\ calls[i].core /\ calls[j].core
         /\ calls[i].metrics = calls[j].metrics
         /\ calls[i].user_profile = calls[j].user_profile
         /\ calls[i].now = calls[j].now)
        => /\ calls[i].features = calls[j].features
           /\ calls[i].risk_score = calls[j].risk_score
           /\ calls[i].response = calls[j].response

\* The same request served twice with a mock prediction, which moves the
\* random generator on, in between.
C16_Witness ==
    /\ Len(calls) = 3
    /\ calls[1].core /\ ~calls[2].core /\ calls[3].core
    /\ calls[1].metrics = calls[3].metrics
    /\ calls[1].user_profile = calls[3].user_profile
    /\ calls[1].now = calls[3].now
    /\ calls[1].response = calls[3].response
    /\ random_state # 0

-----------------------------------------------------------------------------
(* Claims about the two copies of the core (Spec).                         *)

\* C21: on every list of records that carry a timestamp and every profile,
\* compute_features of local_server.py and of local_server_realdata.py return
\* the same feature vector, days_with_data included, and the two
\* calculate_risk_score functions return the same score for it.
C21_SameCore ==
    pc = "features" =>
        /\ features = compute_features_realdata(metrics, user_profile)
        /\ calculate_risk_score(features) = calculate_risk_score_realdata(features)

-----------------------------------------------------------------------------
(* Claims about repeated requests to local_server_realdata                 *)
(* (SpecRepeatRealdata).                                                   *)

\* The risk values of the 7 forecast days, without their dates.
PredictedRisks(r) == [i \in 1..7 |-> r.prediction.predicted_trend[i].predicted_risk]

\* C22: any two predict requests to local_server_realdata with the same
\* userId are answered with the same risk_score, risk_level,
\* contributing_factors, recommendations and per-day predicted_risk, whatever
\* requests for other userIds were served before or between them.
C22_SameUserSamePrediction ==
    \A i, j \in DOMAIN calls :
        (calls[i].seeded /\ calls[j].seeded /\ calls[i].userId = calls[j].userId)
        => LET a == calls[i].response
               b == calls[j].response
           IN  /\ a.prediction.risk_score = b.prediction.risk_score
               /\ a.prediction.risk_level = b.prediction.risk_level
               /\ a.prediction.contributing_factors = b.prediction.contributing_factors
               /\ a.prediction.recommendations = b.prediction.recommendations
               /\ PredictedRisks(a) = PredictedRisks(b)

\* u1, then u2, then u1 again: the generator was in different states before
\* the two requests of u1, and their answers differ in the dates only.
C22_Witness ==
    /\ Len(calls) = 3
    /\ calls[1].seeded /\ calls[2].seeded /\ calls[3].seeded
    /\ calls[1].userId = "u1" /\ calls[2].userId = "u2" /\ calls[3].userId = "u1"
    /\ calls[1].random_state # calls[3].random_state
    /\ calls[1].response.prediction.risk_score = calls[3].response.prediction.risk_score
    /\ calls[1].response.prediction.predicted_trend
         # calls[3].response.prediction.predicted_trend
    /\ calls[1].response.prediction.risk_score # calls[2].response.prediction.risk_score

-----------------------------------------------------------------------------
(* Claims about failures of the core inside the handler (SpecHandler).     *)

\* A written document is a successful prediction.
Successful(doc) ==
    /\ "object" \in DOMAIN doc
    /\ doc.object.success

\* C23: when the database is available and the fetch returns at least 10
\* records, the response is the rule-based result computed from those
\* records; when compute_features, calculate_risk_score or the response
\* builder fails on them, no successful prediction is written.
C23_CoreFailureNotMasked ==
    FetchSucceeded /\ Len(request.stream.docs) >= 10 =>
        IF raises(compute_features(request.stream.docs, user_profile))
        THEN \A i \in 1..Len(wfile) : ~Successful(wfile[i])
        ELSE BodyIsRuleBased

-----------------------------------------------------------------------------
(* Claims relating factor statuses to the scoring rules (SpecScore).       *)

\* The status the response gives the factor of a metric.
StatusOf(metric) ==
    LET factors == response.prediction.contributing_factors
        i == CHOOSE k \in 1..Len(factors) : factors[k].feature = metric
    IN  factors[i].status

\* What the scoring rule of a metric adds to the risk score of the features.
ContributionOf(metric) ==
    CASE metric = "heart_rate" -> hr_risk(features.heart_rate_mean)
      [] metric = "steps" -> steps_risk(features.steps_mean)
      [] metric = "sleep" -> sleep_risk(features.sleep_hours_mean)
      [] metric = "calories" -> cal_risk(features.calories_mean)

\* C24: whenever the status of the heart_rate, steps, sleep or calories factor
\* is warning or critical, the scoring rule of the same metric adds a
\* strictly positive amount to the risk score; the heart_rate and calories
\* factors are never critical.
C24_AlarmImpliesContribution ==
    pc = "done" =>
        /\ \A metric \in KnownTypes :
              StatusOf(metric) \in {"warning", "critical"}
                  => RGt(ContributionOf(metric), Zero)
        /\ StatusOf("heart_rate") # "critical"
        /\ StatusOf("calories") # "critical"

\* Calories just above the status threshold and a heart rate just below its
\* lower one raise a warning and score 0.05 and 0.10; sleep of 11 hours scores
\* 0.10 with status good: the implication holds in one direction only.
C24_Witness ==
    /\ pc = "done"
    /\ features.calories_mean = Int2Rat(3000)
    /\ StatusOf("calories") = "warning"
    /\ ContributionOf("calories") = Rat(5, 100)
    /\ features.heart_rate_mean = Int2Rat(50)
    /\ StatusOf("heart_rate") = "warning"
    /\ ContributionOf("heart_rate") = Rat(10, 100)
    /\ StatusOf("steps") = "critical"
    /\ features.sleep_hours_mean = Int2Rat(11)
    /\ StatusOf("sleep") = "good"
    /\ ContributionOf("sleep") = Rat(10, 100)

-----------------------------------------------------------------------------
(* Claims about the absence of data (Spec).                                *)

\* No records and a profile with neither age nor gender.
NoData == metrics = <<>> /\ user_profile = <<>>

====
